---- MODULE Spec2Model ----
(***************************************************************************)
(* A model of the tax_agent repository: the XML-to-Markdown converter      *)
(* (src/src/xml_to_markdown.py), the chunked LLM reformatting pipeline     *)
(* (src/src/format_markdown.py) and the question answering agent           *)
(* (src/src/agent.py).                                                     *)
(*                                                                         *)
(* Text is modelled as a sequence of one-character strings; the direct     *)
(* text and the tail text of document node n hold the word tokens          *)
(* TextTok[n] and TailTok[n], which behave as single non-blank characters  *)
(* and let a property follow one node's text through the output.           *)
(***************************************************************************)
EXTENDS Integers, Sequences, FiniteSets, TLC

VARIABLES
    doc,               \* the parsed document tree (root = node 1)
    markdown_content,  \* convert_xml_to_markdown's markdown_content
    conv_pc,           \* position in convert_xml_to_markdown
    total_chunks,      \* format_markdown: len(chunks)
    resume,            \* format_markdown's resume argument
    clean,             \* format_markdown's clean argument
    files,             \* data/output/formatted_<i>.md, by chunk index
    formatted_chunks,  \* format_markdown's formatted_chunks
    start_chunk,       \* format_markdown's start_chunk
    chunk_i,           \* the chunk loop's i
    attempt,           \* the retry loop's attempt
    output_file,       \* the entries written to output_file
    checkpoint,        \* the entries written to <output_file>.checkpoint
    runs,              \* the number of runs of format_markdown so far
    fmt_pc,            \* position in format_markdown
    tax_code_content,      \* TaxAgent.tax_code_content
    conversation_history,  \* TaxAgent.conversation_history
    last_query,            \* the last call of TaxAgent.query and its result
    agent_pc,              \* "ready" once the TaxAgent is constructed
    call,                  \* a direct call of a function: its name, arguments
    call_result            \* what the call returned, NoResult before it

conv_vars == <<doc, markdown_content, conv_pc>>

fmt_vars ==
    <<total_chunks, resume, clean, files, formatted_chunks, start_chunk,
      chunk_i, attempt, output_file, checkpoint, runs, fmt_pc>>

agent_vars ==
    <<tax_code_content, conversation_history, last_query, agent_pc>>

call_vars == <<call, call_result>>

vars == <<conv_vars, fmt_vars, agent_vars, call_vars>>

-----------------------------------------------------------------------------
(* Bounds of the model *)

\* the largest number of nodes of a generic document tree
MaxNodes == 3

\* the largest number of nodes of a list-shaped document tree
MaxListNodes == 4

\* the largest number of nodes of a small generic document tree
MaxSmallNodes == 2

\* the largest length of a text handed to the cleanup pass
MaxTextLen == 5

\* the largest number of chunks of the input of format_markdown
MaxChunks == 2

\* the largest number of runs of format_markdown on one input
MaxRuns == 2

\* the largest number of blocks of the tax code document
MaxSections == 2

\* the largest number of calls of TaxAgent.query
MaxQueries == 2

\* the largest number of blocks of a document searched for sections
MaxDocSections == 4

\* the largest number of nodes of a document tree of sections
MaxSectionNodes == 4

\* the largest number of nodes of a document tree of paragraphs
MaxParagraphNodes == 4

\* the largest number of nodes of a document tree of notes
MaxNoteNodes == 4

\* the largest length of a text split into chunks
MaxSplitLen == 6

\* the largest max_chunk_size of a call of split_by_paragraphs
MaxChunkSize == 4

\* the largest number of rows of the body of a table
MaxRows == 2

\* the largest number of cells of a row of a table
MaxCells == 2

-----------------------------------------------------------------------------
(* Python's str operations on sequences of characters *)

\* the characters str.strip() removes
Whitespace == {" ", "\n", "\t"}

RECURSIVE lstrip(_)
lstrip(s) ==
    IF s # <<>> /\ Head(s) \in Whitespace THEN lstrip(Tail(s)) ELSE s

RECURSIVE rstrip(_)
rstrip(s) ==
    IF s # <<>> /\ s[Len(s)] \in Whitespace
    THEN rstrip(SubSeq(s, 1, Len(s) - 1))
    ELSE s

strip(s) == rstrip(lstrip(s))

\* s.split(c) for a one-character separator c
RECURSIVE split(_, _)
split(s, c) ==
    IF \A i \in 1..Len(s) : s[i] # c
    THEN <<s>>
    ELSE LET i == CHOOSE k \in 1..Len(s) :
                      s[k] = c /\ \A j \in 1..(k - 1) : s[j] # c
         IN  <<SubSeq(s, 1, i - 1)>> \o split(SubSeq(s, i + 1, Len(s)), c)

\* sep.join(parts)
RECURSIVE join(_, _)
join(parts, sep) ==
    IF parts = <<>> THEN <<>>
    ELSE IF Len(parts) = 1 THEN parts[1]
    ELSE parts[1] \o sep \o join(Tail(parts), sep)

\* the number of places at which character c occurs in s
Count(s, c) == Cardinality({i \in 1..Len(s) : s[i] = c})

\* s.endswith(t)
EndsWith(s, t) ==
    Len(t) <= Len(s) /\ SubSeq(s, Len(s) - Len(t) + 1, Len(s)) = t

-----------------------------------------------------------------------------
(* The document tree (lxml elements) *)

TextTok == <<"t1", "t2", "t3", "t4", "t5">>
TailTok == <<"a1", "a2", "a3", "a4", "a5">>

Nodes == 1..Len(doc.parent)

Root == 1

getparent(e) == doc.parent[e]

\* element.tag: "{namespace}local" when the document declares a namespace
RawTag(e) == IF doc.ns THEN <<"{ns}", doc.tag[e]>> ELSE <<doc.tag[e]>>

\* the local name, after tag.split("}")
get_tag_name(e) ==
    LET tag == RawTag(e)
    IN  IF Len(tag) > 1 THEN tag[2] ELSE tag[1]

\* "for child in element": the children in document order
Children(e) ==
    SelectSeq([i \in Nodes |-> i], LAMBDA m : doc.parent[m] = e)

RECURSIVE IsAncestor(_, _)
IsAncestor(a, m) ==
    /\ doc.parent[m] # 0
    /\ (doc.parent[m] = a \/ IsAncestor(a, doc.parent[m]))

\* the proper descendants of e in document order
Descendants(e) ==
    SelectSeq([i \in Nodes |-> i], LAMBDA m : IsAncestor(e, m))

RECURSIVE Level(_)
Level(e) == IF doc.parent[e] = 0 THEN 0 ELSE 1 + Level(doc.parent[e])

NonBlank(s) == strip(s) # <<>>

-----------------------------------------------------------------------------
(* xml_to_markdown.py *)

\* the elements that handle their children internally
skip_children_tags ==
    {"section", "subsection", "paragraph", "subparagraph",
     "table", "list", "note", "notes"}

\* a walker that also leaves out the children of an element without text
should_process_children_skip_empty(element) ==
    /\ get_tag_name(element) \notin skip_children_tags
    /\ NonBlank(doc.text[element])

should_process_children(element) ==
    get_tag_name(element) \notin skip_children_tags

\* the tags element_to_markdown renders even without direct text
structural_tags ==
    {"section", "subsection", "paragraph", "subparagraph",
     "table", "list", "title", "note", "notes"}

RECURSIVE first_child_with_text(_, _)
first_child_with_text(cs, child_tag) ==
    IF cs = <<>> THEN 0
    ELSE IF get_tag_name(Head(cs)) = child_tag /\ doc.text[Head(cs)] # <<>>
    THEN Head(cs)
    ELSE first_child_with_text(Tail(cs), child_tag)

get_child_text(element, child_tag) ==
    LET c == first_child_with_text(Children(element), child_tag)
    IN  IF c = 0 THEN <<>> ELSE strip(doc.text[c])

\* element.xpath(".//name"): the descendants whose tag is name in no namespace
xpath_descendants(element, name) ==
    SelectSeq(Descendants(element), LAMBDA m : RawTag(m) = <<name>>)

RECURSIVE item_contents(_)
item_contents(cs) ==
    IF cs = <<>> THEN <<>>
    ELSE (IF doc.text[Head(cs)] # <<>>
          THEN <<" ">> \o strip(doc.text[Head(cs)])
          ELSE <<>>) \o item_contents(Tail(cs))

item_text(item) ==
    (IF doc.text[item] # <<>> THEN strip(doc.text[item]) ELSE <<>>)
        \o item_contents(xpath_descendants(item, "content"))

RECURSIVE list_lines(_)
list_lines(items) ==
    IF items = <<>> THEN <<>>
    ELSE (IF item_text(Head(items)) # <<>>
          THEN << <<"*", " ">> \o item_text(Head(items)) >>
          ELSE <<>>) \o list_lines(Tail(items))

convert_list(list_element) ==
    join(list_lines(xpath_descendants(list_element, "item")), <<"\n">>)

\* BeautifulSoup's get_text(strip=True): every string below the cell, stripped
RECURSIVE cell_strings(_, _)
cell_strings(cell, ds) ==
    IF ds = <<>> THEN <<>>
    ELSE strip(doc.text[Head(ds)]) \o strip(doc.tail[Head(ds)])
             \o cell_strings(cell, Tail(ds))

get_text(cell) == strip(doc.text[cell]) \o cell_strings(cell, Descendants(cell))

find_all(element, name) ==
    SelectSeq(Descendants(element), LAMBDA m : get_tag_name(m) = name)

RECURSIVE cells_row(_)
cells_row(cells) ==
    IF cells = <<>> THEN <<>>
    ELSE <<get_text(Head(cells))>> \o cells_row(Tail(cells))

table_row(cells) ==
    <<"|", " ">> \o join(cells, <<" ", "|", " ">>) \o <<" ", "|">>

\* the rows of the body, the rows without a cell kept
RECURSIVE body_rows_keeps_empty(_)
body_rows_keeps_empty(trs) ==
    IF trs = <<>> THEN <<>>
    ELSE <<table_row(cells_row(find_all(Head(trs), "td")))>>
             \o body_rows_keeps_empty(Tail(trs))

RECURSIVE body_rows(_)
body_rows(trs) ==
    IF trs = <<>> THEN <<>>
    ELSE (IF find_all(Head(trs), "td") # <<>>
          THEN <<table_row(cells_row(find_all(Head(trs), "td")))>>
          ELSE <<>>) \o body_rows(Tail(trs))

table_to_markdown(table_element) ==
    LET theads  == find_all(table_element, "thead")
        headers == IF theads = <<>> THEN <<>>
                   ELSE cells_row(find_all(theads[1], "th"))
        tbodies == find_all(table_element, "tbody")
        head    == IF headers = <<>> THEN <<>>
                   ELSE <<table_row(headers),
                          table_row([i \in 1..Len(headers) |-> <<"-", "-", "-">>])>>
        body    == IF tbodies = <<>> THEN <<>>
                   ELSE body_rows(find_all(tbodies[1], "tr"))
    IN  join(head \o body, <<"\n">>)

\* "> " put before every line of a note
RECURSIVE blockquote(_)
blockquote(lines) ==
    IF lines = <<>> THEN <<>>
    ELSE << <<">", " ">> \o Head(lines) >> \o blockquote(Tail(lines))

\* a header written only when the element has both a num and a heading
section_header_needs_both(element, marks) ==
    LET num     == get_child_text(element, "num")
        heading == get_child_text(element, "heading")
    IN  IF num # <<>> /\ heading # <<>>
        THEN <<"\n">> \o marks \o <<" ">> \o num \o <<" ">> \o heading
                 \o <<"\n", "\n">>
        ELSE <<>>

\* the header of a section ("## ") or of a subsection ("### ")
section_header(element, marks) ==
    LET num     == get_child_text(element, "num")
        heading == get_child_text(element, "heading")
        header  == (IF num # <<>> THEN num \o <<" ">> ELSE <<>>) \o heading
    IN  IF header # <<>>
        THEN <<"\n">> \o marks \o <<" ">> \o header \o <<"\n", "\n">>
        ELSE <<>>

RECURSIVE process_xml_tree(_, _)
RECURSIVE element_to_markdown(_, _)
RECURSIVE walk_children(_, _, _)
RECURSIVE note_children(_, _)

\* "for child in element: if child_tag not in skipped: content += process_xml_tree(child)"
walk_children(cs, skipped, level) ==
    IF cs = <<>> THEN <<>>
    ELSE (IF get_tag_name(Head(cs)) \in skipped
          THEN <<>>
          ELSE process_xml_tree(Head(cs), level + 1))
             \o walk_children(Tail(cs), skipped, level)

\* the note branch's loop over the children other than heading
note_children(cs, level) ==
    IF cs = <<>> THEN <<>>
    ELSE LET child_result ==
                 IF get_tag_name(Head(cs)) = "heading" THEN <<>>
                 ELSE process_xml_tree(Head(cs), level + 1)
             blockquote_lines ==
                 blockquote(SelectSeq(split(child_result, "\n"), NonBlank))
         IN  (IF child_result # <<>> /\ blockquote_lines # <<>>
              THEN join(blockquote_lines, <<"\n">>) \o <<"\n">>
              ELSE <<>>) \o note_children(Tail(cs), level)

\* a paragraph whose other children start on a line of their own
paragraph_block_children_on_new_line(element, indent, level) ==
    LET num          == get_child_text(element, "num")
        content_text == get_child_text(element, "content")
        additional_content ==
            walk_children(Children(element), {"num", "content"}, level)
        result ==
            (IF num # <<>>
             THEN indent \o <<"*", "*">> \o num \o <<"*", "*", " ">>
             ELSE <<>>)
            \o (IF content_text # <<>> THEN content_text \o <<" ">> ELSE <<>>)
            \o (IF NonBlank(additional_content)
                THEN <<"\n">> \o strip(additional_content) ELSE <<>>)
    IN  IF NonBlank(result) THEN result \o <<"\n">> ELSE result

\* a paragraph ("**num** ") or a subparagraph ("  - **num** ")
paragraph_block(element, indent, level) ==
    LET num          == get_child_text(element, "num")
        content_text == get_child_text(element, "content")
        additional_content ==
            walk_children(Children(element), {"num", "content"}, level)
        result ==
            (IF num # <<>>
             THEN indent \o <<"*", "*">> \o num \o <<"*", "*", " ">>
             ELSE <<>>)
            \o (IF content_text # <<>> THEN content_text \o <<" ">> ELSE <<>>)
            \o strip(additional_content)
    IN  IF NonBlank(result) THEN result \o <<"\n">> ELSE result

\* the tag-specific branch of element_to_markdown
tag_branch(element, level) ==
    LET tag  == get_tag_name(element)
        text == doc.text[element]
    IN  CASE tag = "title" /\ getparent(element) # 0
               /\ get_tag_name(getparent(element)) = "uscDoc" ->
              LET num     == get_child_text(element, "num")
                  heading == get_child_text(element, "heading")
              IN  (IF num # <<>>
                   THEN <<"#", " ">> \o num \o <<"\n", "\n">> ELSE <<>>)
                  \o (IF heading # <<>>
                      THEN <<"#", " ">> \o heading \o <<"\n", "\n">> ELSE <<>>)
          [] tag = "section" ->
              section_header(element, <<"#", "#">>)
                  \o walk_children(Children(element), {"num", "heading"}, level)
          [] tag = "subsection" ->
              section_header(element, <<"#", "#", "#">>)
                  \o walk_children(Children(element), {"num", "heading"}, level)
          [] tag = "paragraph" -> paragraph_block(element, <<>>, level)
          [] tag = "subparagraph" ->
              paragraph_block(element, <<" ", " ", "-", " ">>, level)
          [] tag \in {"p", "content", "chapeau"} ->
              IF NonBlank(text) THEN strip(text) \o <<" ">> ELSE <<>>
          [] tag = "table" ->
              IF table_to_markdown(element) # <<>>
              THEN table_to_markdown(element) \o <<"\n">>
              ELSE <<>>
          [] tag \in {"note", "notes"} ->
              LET heading == get_child_text(element, "heading")
              IN  (IF heading # <<>>
                   THEN <<">", " ", "*", "*">> \o heading \o <<"*", "*", "\n">>
                   ELSE <<>>)
                  \o (IF NonBlank(text)
                      THEN join(blockquote(split(strip(text), "\n")), <<"\n">>)
                               \o <<"\n">>
                      ELSE <<>>)
                  \o note_children(Children(element), level)
          [] tag = "ref" ->
              IF doc.href[element] # <<>> /\ NonBlank(text)
              THEN <<"[">> \o strip(text) \o <<"]", "(">> \o doc.href[element]
                       \o <<")">>
              ELSE IF NonBlank(text)
              THEN <<"*">> \o strip(text) \o <<"*">>
              ELSE <<>>
          [] tag = "list" ->
              IF convert_list(element) # <<>>
              THEN convert_list(element) \o <<"\n">>
              ELSE <<>>
          [] tag \in {"num", "heading"} -> <<>>
          [] tag \in {"meta", "main"} -> <<>>
          [] OTHER ->
              IF NonBlank(text) THEN strip(text) \o <<" ">> ELSE <<>>

\* "Handle tail text (inline)"
tail_text(element) ==
    IF doc.tail[element] # <<>> /\ NonBlank(doc.tail[element])
    THEN strip(doc.tail[element]) \o <<" ">>
    ELSE <<>>

element_to_markdown(element, level) ==
    IF ~NonBlank(doc.text[element])
           /\ get_tag_name(element) \notin structural_tags
    THEN <<>>
    ELSE tag_branch(element, level) \o tail_text(element)

process_xml_tree(element, level) ==
    element_to_markdown(element, level)
        \o (IF should_process_children(element)
            THEN walk_children(Children(element), {}, level)
            ELSE <<>>)

-----------------------------------------------------------------------------
(* The document trees the converter is run on *)

RECURSIVE AncOrSelf(_, _)
AncOrSelf(p, m) == IF m = 0 THEN {} ELSE {m} \cup AncOrSelf(p, p[m])

\* the parent maps of the trees of k nodes numbered in document order
Shapes(k) ==
    {p \in [1..k -> 0..(k - 1)] :
        /\ \A m \in 1..k : p[m] < m
        /\ p[1] = 0
        /\ \A m \in 2..k : p[m] \in AncOrSelf(p, m - 1)}

\* the tags of the generic trees
Tags ==
    {"section", "paragraph", "note", "list", "item", "content",
     "num", "heading", "p", "main", "b"}

\* the tags of the list-shaped trees
ListTags == {"list", "item", "content"}

\* no text (None), blank text, text to be stripped
TextOf(n, kind) ==
    CASE kind = "none"  -> <<>>
      [] kind = "blank" -> <<"\n", " ">>
      [] kind = "text"  -> <<TextTok[n], " ">>
      [] kind = "lines" -> <<TextTok[n], "\n", " ", " ", TextTok[n], " ">>

TextKinds == {"none", "blank", "text"}

TailOf(n, has) == IF has THEN <<" ", TailTok[n]>> ELSE <<>>

\* doc is a tree of at most maxNodes nodes with tags among tags
IsTreeOver(maxNodes, tags, kinds, tails, nss) ==
    \E k \in 1..maxNodes :
        \E p \in Shapes(k), tg \in [1..k -> tags], tx \in [1..k -> kinds],
           tl \in [2..k -> tails], ns \in nss :
            doc = [ns     |-> ns,
                   parent |-> p,
                   tag    |-> tg,
                   text   |-> [n \in 1..k |-> TextOf(n, tx[n])],
                   tail   |-> [n \in 1..k |->
                                 IF n = 1 THEN <<>> ELSE TailOf(n, tl[n])],
                   href   |-> [n \in 1..k |-> <<>>]]

-----------------------------------------------------------------------------
(* convert_xml_to_markdown: the cleanup pass *)

\* the length of the run of character c at the head of s
RECURSIVE RunLen(_, _)
RunLen(s, c) ==
    IF s # <<>> /\ Head(s) = c THEN 1 + RunLen(Tail(s), c) ELSE 0

Drop(s, k) == SubSeq(s, k + 1, Len(s))

\* re.sub(r"\n{3,}", "\n\n", s)
RECURSIVE collapse_newlines(_)
collapse_newlines(s) ==
    IF s = <<>> THEN <<>>
    ELSE LET r == RunLen(s, "\n")
         IN  IF r >= 3 THEN <<"\n", "\n">> \o collapse_newlines(Drop(s, r))
             ELSE IF r > 0 THEN SubSeq(s, 1, r) \o collapse_newlines(Drop(s, r))
             ELSE <<Head(s)>> \o collapse_newlines(Tail(s))

RECURSIVE strip_each(_)
strip_each(lines) ==
    IF lines = <<>> THEN <<>>
    ELSE <<strip(Head(lines))>> \o strip_each(Tail(lines))

\* "\n".join([line.strip() for line in s.split("\n")])
strip_lines(s) == join(strip_each(split(s, "\n")), <<"\n">>)

\* re.sub(r"\n\n(#+\s)", r"\n\1", s)
RECURSIVE tighten_headings(_)
tighten_headings(s) ==
    IF s = <<>> THEN <<>>
    ELSE LET marks == IF Len(s) >= 2 /\ s[1] = "\n" /\ s[2] = "\n"
                      THEN RunLen(Drop(s, 2), "#") ELSE 0
         IN  IF marks > 0 /\ Len(s) >= marks + 3
                  /\ s[marks + 3] \in Whitespace
             THEN SubSeq(s, 2, marks + 3) \o tighten_headings(Drop(s, marks + 3))
             ELSE <<Head(s)>> \o tighten_headings(Tail(s))

\* re.sub(r" {2,}", " ", s)
RECURSIVE collapse_spaces(_)
collapse_spaces(s) ==
    IF s = <<>> THEN <<>>
    ELSE LET r == RunLen(s, " ")
         IN  IF r >= 2 THEN <<" ">> \o collapse_spaces(Drop(s, r))
             ELSE <<Head(s)>> \o collapse_spaces(Tail(s))

\* the four steps in the order of the code
clean_up(s) ==
    collapse_spaces(tighten_headings(strip_lines(collapse_newlines(s))))

-----------------------------------------------------------------------------
(* convert_xml_to_markdown *)

\* markdown_content = process_xml_tree(root)
Convert ==
    /\ conv_pc = "parsed"
    /\ markdown_content' = process_xml_tree(Root, 0)
    /\ conv_pc' = "converted"
    /\ UNCHANGED <<doc, fmt_vars, agent_vars, call_vars>>

\* "Clean up excessive newlines and spacing" up to "Remove excessive spaces"
CleanUp ==
    /\ conv_pc = "converted"
    /\ markdown_content' = clean_up(markdown_content)
    /\ conv_pc' = "cleaned"
    /\ UNCHANGED <<doc, fmt_vars, agent_vars, call_vars>>

ConvNext == Convert \/ CleanUp

\* the characters of the texts handed to the cleanup pass
TextChars == {"\n", " ", "#", "a"}

Texts == UNION {[1..k -> TextChars] : k \in 0..MaxTextLen}

NoDoc ==
    [ns |-> FALSE, parent |-> <<0>>, tag |-> <<"main">>, text |-> << <<>> >>,
     tail |-> << <<>> >>, href |-> << <<>> >>]

-----------------------------------------------------------------------------
(* format_markdown.py *)

max_retries == 3

\* a checkpoint is saved after every tenth chunk
checkpoint_interval == 10

NoFile == [kind |-> "none", k |-> 0]

\* response["message"]["content"] for chunk i
formatted_text(i) == [kind |-> "formatted", k |-> i]

\* what a failed write leaves of formatted_<i>.md: opened, not written
truncated_text(i) == [kind |-> "truncated", k |-> i]

\* f"[ERROR: Failed to process chunk {i+1}]"
placeholder(i) == [kind |-> "error", k |-> i + 1]

exists(i) == files[i] # NoFile

Max(S) == CHOOSE x \in S : \A y \in S : y <= x

\* the indices of the formatted_<i>.md files in the intermediate directory
existing_chunks == {j \in DOMAIN files : exists(j)}

\* "Load previously processed chunks"
RECURSIVE load_chunks(_, _)
load_chunks(j, start) ==
    IF j >= start THEN <<>>
    ELSE (IF exists(j) THEN <<files[j]>> ELSE <<>>) \o load_chunks(j + 1, start)

\* "Determine starting point for processing"
FmtStart ==
    /\ fmt_pc = "start"
    /\ IF resume /\ existing_chunks # {}
       THEN /\ start_chunk' = Max(existing_chunks) + 1
            /\ formatted_chunks' = load_chunks(0, Max(existing_chunks) + 1)
       ELSE /\ start_chunk' = 0
            /\ formatted_chunks' = <<>>
    /\ chunk_i' = start_chunk'
    /\ fmt_pc' = "loop"
    /\ UNCHANGED <<total_chunks, resume, clean, files, attempt, output_file,
                   checkpoint, runs>>
    /\ UNCHANGED <<conv_vars, agent_vars, call_vars>>

\* "for i in range(start_chunk, total_chunks)": the prompt for chunk i
BeginChunk ==
    /\ fmt_pc = "loop"
    /\ chunk_i < total_chunks
    /\ attempt' = 0
    /\ fmt_pc' = "attempt"
    /\ UNCHANGED <<total_chunks, resume, clean, files, formatted_chunks,
                   start_chunk, chunk_i, output_file, checkpoint, runs>>
    /\ UNCHANGED <<conv_vars, agent_vars, call_vars>>

\* "Save checkpoint periodically", and on to the next chunk
EndChunk(chunks) ==
    /\ formatted_chunks' = chunks
    /\ checkpoint' =
           IF (chunk_i + 1) % checkpoint_interval = 0
                  \/ chunk_i = total_chunks - 1
           THEN chunks
           ELSE checkpoint
    /\ chunk_i' = chunk_i + 1
    /\ fmt_pc' = "loop"
    /\ UNCHANGED attempt

\* "except Exception": the placeholder after the last attempt, else a retry
AttemptFailed(chunks) ==
    IF attempt = max_retries - 1
    THEN EndChunk(Append(chunks, placeholder(chunk_i)))
    ELSE /\ formatted_chunks' = chunks
         /\ attempt' = attempt + 1
         /\ UNCHANGED <<checkpoint, chunk_i, fmt_pc>>

\* ollama.chat raises
ModelCallFails ==
    /\ fmt_pc = "attempt"
    /\ AttemptFailed(formatted_chunks)
    /\ UNCHANGED <<total_chunks, resume, clean, files, start_chunk,
                   output_file, runs>>
    /\ UNCHANGED <<conv_vars, agent_vars, call_vars>>

\* response["message"]["content"] raises
ResponseMalformed ==
    /\ fmt_pc = "attempt"
    /\ AttemptFailed(formatted_chunks)
    /\ UNCHANGED <<total_chunks, resume, clean, files, start_chunk,
                   output_file, runs>>
    /\ UNCHANGED <<conv_vars, agent_vars, call_vars>>

\* the text is appended, then opening or writing the intermediate file raises
WriteFails ==
    /\ fmt_pc = "attempt"
    /\ \E left \in {files[chunk_i], truncated_text(chunk_i)} :
          files' = [files EXCEPT ![chunk_i] = left]
    /\ AttemptFailed(Append(formatted_chunks, formatted_text(chunk_i)))
    /\ UNCHANGED <<total_chunks, resume, clean, start_chunk, output_file,
                   runs>>
    /\ UNCHANGED <<conv_vars, agent_vars, call_vars>>

\* the text is appended and saved: "break  # Exit retry loop on success"
AttemptSucceeds ==
    /\ fmt_pc = "attempt"
    /\ files' = [files EXCEPT ![chunk_i] = formatted_text(chunk_i)]
    /\ EndChunk(Append(formatted_chunks, formatted_text(chunk_i)))
    /\ UNCHANGED <<total_chunks, resume, clean, start_chunk, output_file,
                   runs>>
    /\ UNCHANGED <<conv_vars, agent_vars, call_vars>>

\* "Combine all formatted chunks into final document", then the cleanup
Finish ==
    /\ fmt_pc = "loop"
    /\ chunk_i >= total_chunks
    /\ output_file' = formatted_chunks
    /\ files' = IF clean
                THEN [j \in DOMAIN files |->
                         IF j < total_chunks THEN NoFile ELSE files[j]]
                ELSE files
    /\ checkpoint' = IF clean THEN <<>> ELSE checkpoint
    /\ fmt_pc' = "done"
    /\ UNCHANGED <<total_chunks, resume, clean, formatted_chunks, start_chunk,
                   chunk_i, attempt, runs>>
    /\ UNCHANGED <<conv_vars, agent_vars, call_vars>>

\* KeyboardInterrupt: "Process interrupted by user", sys.exit(1)
Interrupt ==
    /\ fmt_pc \in {"loop", "attempt"}
    /\ fmt_pc' = "exited"
    /\ UNCHANGED <<total_chunks, resume, clean, files, formatted_chunks,
                   start_chunk, chunk_i, attempt, output_file, checkpoint,
                   runs>>
    /\ UNCHANGED <<conv_vars, agent_vars, call_vars>>

\* format_markdown is run again on the same input
Rerun ==
    /\ fmt_pc \in {"done", "exited"}
    /\ runs < MaxRuns
    /\ runs' = runs + 1
    /\ resume' \in BOOLEAN
    /\ clean' \in BOOLEAN
    /\ formatted_chunks' = <<>>
    /\ start_chunk' = 0
    /\ chunk_i' = 0
    /\ attempt' = 0
    /\ fmt_pc' = "start"
    /\ UNCHANGED <<total_chunks, files, output_file, checkpoint>>
    /\ UNCHANGED <<conv_vars, agent_vars, call_vars>>

\* no function is called directly
NoCall == [fn |-> "none"]

NoResult == [returned |-> FALSE]

CallIdle ==
    /\ call = NoCall
    /\ call_result = NoResult

FmtIdle ==
    /\ total_chunks = 0
    /\ resume = FALSE
    /\ clean = FALSE
    /\ files = [j \in 0..(MaxChunks - 1) |-> NoFile]
    /\ formatted_chunks = <<>>
    /\ start_chunk = 0
    /\ chunk_i = 0
    /\ attempt = 0
    /\ output_file = <<>>
    /\ checkpoint = <<>>
    /\ runs = 0
    /\ fmt_pc = "idle"

ConvIdle ==
    /\ doc = NoDoc
    /\ markdown_content = <<>>
    /\ conv_pc = "idle"

\* the runs in which the model and the disk may fail
FmtNext ==
    \/ FmtStart
    \/ BeginChunk
    \/ ModelCallFails
    \/ ResponseMalformed
    \/ WriteFails
    \/ AttemptSucceeds
    \/ Finish
    \/ Interrupt
    \/ Rerun

\* the runs in which only the model fails: every write succeeds
FmtNextDiskOk ==
    \/ FmtStart
    \/ BeginChunk
    \/ ModelCallFails
    \/ ResponseMalformed
    \/ AttemptSucceeds
    \/ Finish
    \/ Interrupt
    \/ Rerun

-----------------------------------------------------------------------------
(* agent.py: strings *)

UpperCase ==
    <<"A", "B", "C", "D", "E", "F", "G", "H", "I", "J", "K", "L", "M",
      "N", "O", "P", "Q", "R", "S", "T", "U", "V", "W", "X", "Y", "Z">>

LowerCase ==
    <<"a", "b", "c", "d", "e", "f", "g", "h", "i", "j", "k", "l", "m",
      "n", "o", "p", "q", "r", "s", "t", "u", "v", "w", "x", "y", "z">>

Digits == {"0", "1", "2", "3", "4", "5", "6", "7", "8", "9"}

\* str.lower()
lower(s) ==
    [i \in 1..Len(s) |->
        IF \E k \in 1..26 : UpperCase[k] = s[i]
        THEN LowerCase[CHOOSE k \in 1..26 : UpperCase[k] = s[i]]
        ELSE s[i]]

\* "sub in s"
Contains(sub, s) ==
    \E i \in 0..(Len(s) - Len(sub)) : SubSeq(s, i + 1, i + Len(sub)) = sub

\* the length of the longest prefix of s made of characters of set
RECURSIVE SpanLen(_, _)
SpanLen(s, set) ==
    IF s # <<>> /\ Head(s) \in set THEN 1 + SpanLen(Tail(s), set) ELSE 0

\* the length of the longest prefix of s without a character of set
RECURSIVE SpanLenNot(_, _)
SpanLenNot(s, set) ==
    IF s # <<>> /\ Head(s) \notin set THEN 1 + SpanLenNot(Tail(s), set) ELSE 0

\* str.split(): the words between runs of whitespace
RECURSIVE split_words(_)
split_words(s) ==
    LET t == lstrip(s)
        n == SpanLenNot(t, Whitespace)
    IN  IF t = <<>> THEN <<>>
        ELSE <<SubSeq(t, 1, n)>> \o split_words(Drop(t, n))

-----------------------------------------------------------------------------
(* agent.py: TaxAgent *)

tax_terms ==
    <<<<"d", "e", "d", "u", "c", "t", "i", "o", "n">>,
      <<"c", "r", "e", "d", "i", "t">>,
      <<"i", "n", "c", "o", "m", "e">>,
      <<"t", "a", "x">>,
      <<"f", "i", "l", "i", "n", "g">>,
      <<"r", "e", "t", "u", "r", "n">>,
      <<"d", "e", "p", "e", "n", "d", "e", "n", "t">>,
      <<"e", "x", "e", "m", "p", "t", "i", "o", "n">>,
      <<"l", "i", "a", "b", "i", "l", "i", "t", "y">>,
      <<"a", "s", "s", "e", "t">>,
      <<"c", "h", "a", "r", "i", "t", "a", "b", "l", "e">>,
      <<"b", "u", "s", "i", "n", "e", "s", "s">>,
      <<"e", "x", "p", "e", "n", "s", "e">>,
      <<"c", "a", "p", "i", "t", "a", "l">>,
      <<"g", "a", "i", "n">>,
      <<"l", "o", "s", "s">>,
      <<"d", "i", "v", "i", "d", "e", "n", "d">>,
      <<"i", "n", "t", "e", "r", "e", "s", "t">>,
      <<"r", "e", "t", "i", "r", "e", "m", "e", "n", "t">>,
      <<"I", "R", "A">>,
      <<"4", "0", "1", "k">>,
      <<"e", "s", "t", "a", "t", "e">>,
      <<"g", "i", "f", "t">>>>

stopwords ==
    {<<"w", "h", "a", "t">>,
     <<"w", "h", "e", "r", "e">>,
     <<"w", "h", "e", "n">>,
     <<"w", "h", "i", "c", "h">>,
     <<"t", "h", "e", "r", "e">>,
     <<"t", "h", "e", "i", "r">>,
     <<"a", "b", "o", "u", "t">>}

\* "just use words longer than 4 characters"
min_word_len == 4

\* "Return top sections (max 3 for simplicity)"
top_sections == 3

\* "Truncate long sections"
content_limit == 500

\* the key terms, the stopwords kept among the words of the question
_extract_key_terms_keeps_stopwords(question) ==
    LET found_terms ==
            SelectSeq(tax_terms,
                      LAMBDA term : Contains(lower(term), lower(question)))
    IN  IF found_terms # <<>> THEN found_terms
        ELSE SelectSeq(split_words(question),
                       LAMBDA word : Len(word) > min_word_len)

_extract_key_terms(question) ==
    LET found_terms ==
            SelectSeq(tax_terms,
                      LAMBDA term : Contains(lower(term), lower(question)))
    IN  IF found_terms # <<>> THEN found_terms
        ELSE SelectSeq(split_words(question),
                       LAMBDA word : /\ Len(word) > min_word_len
                                     /\ lower(word) \notin stopwords)

\* the length of the match of "(" [^)]+ ")" at the head of s, 0 without one
paren_len(s) ==
    IF s # <<>> /\ Head(s) = "(" /\ SpanLenNot(Tail(s), {")"}) >= 1
           /\ Len(s) >= SpanLenNot(Tail(s), {")"}) + 2
    THEN SpanLenNot(Tail(s), {")"}) + 2
    ELSE 0

\* the length of the match of §\d+(?:\([^)]+\))? at the head of s, 0 without
section_ref_len(s) ==
    IF s # <<>> /\ Head(s) = "§" /\ SpanLen(Tail(s), Digits) >= 1
    THEN LET d == SpanLen(Tail(s), Digits)
         IN  1 + d + paren_len(Drop(s, 1 + d))
    ELSE 0

\* the length of the match of #{1,4} followed by a character of next
\* at the head of s, not counting that character; 0 without one
marks_len(s, next) ==
    LET r == SpanLen(s, {"#"})
    IN  IF r >= 1 /\ r <= 4 /\ Len(s) > r /\ s[r + 1] \in next THEN r ELSE 0

\* the length of the match of #{1,4}\s+§\d+(?:\([^)]+\))? at the head of s
marked_ref_len(s) ==
    LET r == marks_len(s, Whitespace)
        w == SpanLen(Drop(s, r), Whitespace)
        n == section_ref_len(Drop(s, r + w))
    IN  IF r > 0 /\ n > 0 THEN r + w + n ELSE 0

\* the length of the match of #{1,4}\s+ at the head of s
marked_space_len(s) ==
    LET r == marks_len(s, Whitespace)
    IN  IF r > 0 THEN r + SpanLen(Drop(s, r), Whitespace) ELSE 0

\* re.sub(r"#{1,4}\s+§\d+(?:\([^)]+\))?", "", s)
RECURSIVE remove_marked_refs(_)
remove_marked_refs(s) ==
    IF s = <<>> THEN <<>>
    ELSE IF marked_ref_len(s) > 0
    THEN remove_marked_refs(Drop(s, marked_ref_len(s)))
    ELSE <<Head(s)>> \o remove_marked_refs(Tail(s))

\* re.sub(r"#{1,4}\s+", "", s)
RECURSIVE remove_marks(_)
remove_marks(s) ==
    IF s = <<>> THEN <<>>
    ELSE IF marked_space_len(s) > 0
    THEN remove_marks(Drop(s, marked_space_len(s)))
    ELSE <<Head(s)>> \o remove_marks(Tail(s))

\* the place in s of the first match of §\d+(?:\([^)]+\))?, 0 without one
RECURSIVE search_section_ref(_)
search_section_ref(s) ==
    IF s = <<>> THEN 0
    ELSE IF section_ref_len(s) > 0 THEN 1
    ELSE LET at == search_section_ref(Tail(s))
         IN  IF at = 0 THEN 0 ELSE 1 + at

_extract_citation(heading) ==
    LET at == search_section_ref(heading)
    IN  IF at > 0
        THEN LET m          == Drop(heading, at - 1)
                 d          == SpanLen(Tail(m), Digits)
                 section    == SubSeq(m, 2, 1 + d)
                 p          == paren_len(Drop(m, 1 + d))
                 subsection == IF p > 0 THEN SubSeq(m, d + 3, d + p) ELSE <<>>
                 heading_text ==
                     strip(remove_marked_refs(heading))
             IN  <<"2", "6", " ", "U", "S", "C", " ", "§">> \o section
                     \o (IF subsection # <<>>
                         THEN <<"(">> \o subsection \o <<")">> ELSE <<>>)
                     \o <<" ", "[">> \o heading_text \o <<"]">>
        ELSE <<"U", "S", " ", "T", "a", "x", " ", "C", "o", "d", "e", " ",
          "[">> \o strip(remove_marks(heading))
                 \o <<"]">>

\* the end of the heading matched at the head of s by #{1,4}\s[^\n]+ and
\* followed by a blank line and some content; 0 without a match
heading_len(s) ==
    LET r == marks_len(s, Whitespace)
        n == SpanLenNot(Drop(s, r + 1), {"\n"})
        e == r + 1 + n
    IN  IF r > 0 /\ n >= 1 /\ Len(s) >= e + 3
               /\ s[e + 1] = "\n" /\ s[e + 2] = "\n"
        THEN e ELSE 0

\* the length of the content .+? at the head of s: up to the first place
\* after its first character where \n#{1,4}\s follows, or to the end
content_len(s) ==
    LET ends == {i \in 1..(Len(s) - 1) :
                    /\ s[i + 1] = "\n"
                    /\ marks_len(Drop(s, i + 1), Whitespace) > 0}
    IN  IF ends = {} THEN Len(s)
        ELSE CHOOSE i \in ends : \A k \in ends : i <= k

\* re.findall(section_pattern, text, re.DOTALL): the (heading, content) pairs
RECURSIVE find_sections(_)
find_sections(s) ==
    IF s = <<>> THEN <<>>
    ELSE LET h == heading_len(s)
         IN  IF h > 0
             THEN LET c == content_len(Drop(s, h + 2))
                  IN  << <<SubSeq(s, 1, h), SubSeq(s, h + 3, h + 2 + c)>> >>
                          \o find_sections(Drop(s, h + 2 + c))
             ELSE find_sections(Tail(s))

\* the number of key terms found in the heading or in the content
relevance(terms, heading, content) ==
    Len(SelectSeq(terms,
                  LAMBDA term : \/ Contains(lower(term), lower(content))
                                \/ Contains(lower(term), lower(heading))))

RECURSIVE scored_sections(_, _)
scored_sections(sections, terms) ==
    IF sections = <<>> THEN <<>>
    ELSE LET heading == Head(sections)[1]
             content == Head(sections)[2]
             score   == relevance(terms, heading, content)
         IN  (IF score > 0
              THEN <<[heading   |-> heading,
                      content   |-> SubSeq(content, 1,
                                           IF Len(content) < content_limit
                                           THEN Len(content) ELSE content_limit),
                      citation  |-> _extract_citation(heading),
                      relevance |-> score]>>
              ELSE <<>>) \o scored_sections(Tail(sections), terms)

\* the records left in the order of the document
sort_by_relevance_unsorted(records) == records

\* list.sort(key=relevance, reverse=True): stable, the higher scores first
RECURSIVE sort_by_relevance(_)
sort_by_relevance(records) ==
    IF records = <<>> THEN <<>>
    ELSE LET rest   == sort_by_relevance(SubSeq(records, 1, Len(records) - 1))
             last   == records[Len(records)]
             before == SelectSeq(rest, LAMBDA x : x.relevance >= last.relevance)
             after  == SelectSeq(rest, LAMBDA x : x.relevance < last.relevance)
         IN  before \o <<last>> \o after

_find_relevant_sections(content, question) ==
    LET sorted == sort_by_relevance(
                      scored_sections(find_sections(content),
                                      _extract_key_terms(question)))
    IN  SubSeq(sorted, 1,
               IF Len(sorted) < top_sections THEN Len(sorted) ELSE top_sections)

not_found_message ==
    <<"I couldn't find specific information about that in the tax code. Please try rephrasing your question or ask something more specific about tax regulations.">>

apology_message ==
    <<"I'm having trouble processing your question right now. Please try again later.">>

source_marker == <<"S", "o", "u", "r", "c", "e", ":">>

\* what ollama.chat does: it raises, or it returns a response
ModelOutcomes(answers) ==
    {[kind |-> k, answer |-> <<>>] : k \in {"raises", "no_message",
      "no_content"}}
        \cup {[kind |-> "ok", answer |-> a] : a \in answers}

\* _generate_response without its try/except around the model call
_generate_response_unguarded(question, relevant_sections, outcome) ==
    IF relevant_sections = <<>>
    THEN [raised |-> FALSE, value |-> not_found_message]
    ELSE IF outcome.kind # "ok"
    THEN [raised |-> TRUE, value |-> <<>>]
    ELSE [raised |-> FALSE, value |-> outcome.answer]

\* the value returned, or raised: TRUE for an exception that leaves the call
_generate_response(question, relevant_sections, outcome) ==
    IF relevant_sections = <<>>
    THEN [raised |-> FALSE, value |-> not_found_message]
    ELSE IF outcome.kind # "ok"
    THEN [raised |-> FALSE, value |-> apology_message]
    ELSE LET answer   == outcome.answer
             citation == relevant_sections[1].citation
         IN  [raised |-> FALSE,
              value  |->
                  IF (~\E k \in 1..Len(relevant_sections) :
                           relevant_sections[k].citation # <<>>)
                         /\ ~Contains(source_marker, answer)
                  THEN answer \o <<"\n", "\n", "S", "o", "u", "r", "c",
                    "e", ":", " ">> \o citation
                  ELSE answer]

\* the questions put to the agent
Questions ==
    {<<"t", "a", "x">>,
     <<"W", "h", "a", "t", " ", "o", "f", " ", "I", "n", "c", "o", "m",
       "e", "?">>,
     <<"a", "b", "o", "u", "t", " ", "n", "o", "t", "e", "s">>}

\* the answers of the model
Answers ==
    {<<"o", "k">>,
     <<"o", "k", "\n", "S", "o", "u", "r", "c", "e", ":", " ", "x">>}

\* the blocks the tax code document is made of
Blocks ==
    {<<"#", "#", " ", "§", "6", "3", " ", "I", "n", "c", "o", "m", "e",
      "\n", "\n", "i", "n", "c", "o", "m", "e", " ", "t", "a", "x", "\n">>,
     <<"#", "#", "#", " ", "§", "1", "(", "a", ")", " ", "T", "a", "x",
       "\n", "\n", "t", "a", "x", " ", "d", "u", "e", "\n">>,
     <<"#", " ", "N", "o", "t", "e", "s", "\n", "x", "\n">>}

RECURSIVE concat(_)
concat(parts) ==
    IF parts = <<>> THEN <<>> ELSE Head(parts) \o concat(Tail(parts))

\* TaxAgent.query
Query ==
    /\ agent_pc = "ready"
    /\ Len(conversation_history) < 2 * MaxQueries
    /\ \E question \in Questions :
       \E relevant_sections \in
              {_find_relevant_sections(tax_code_content, question)} :
       \E outcome \in ModelOutcomes(Answers) :
       \E response \in
              {_generate_response(question, relevant_sections, outcome)} :
          LET asked == Append(conversation_history,
                              [role |-> "user", content |-> question])
          IN  /\ conversation_history' =
                     IF response.raised THEN asked
                     ELSE Append(asked, [role    |-> "assistant",
                                         content |-> response.value])
              /\ last_query' =
                     [question |-> question,
                      outcome  |-> outcome,
                      sections |-> relevant_sections,
                      raised   |-> response.raised,
                      returned |-> response.value]
    /\ UNCHANGED <<tax_code_content, agent_pc, conv_vars, fmt_vars, call_vars>>

NoQuery ==
    [question |-> <<>>, outcome |-> [kind |-> "none", answer |-> <<>>],
     sections |-> <<>>, raised |-> FALSE, returned |-> <<>>]

AgentIdle ==
    /\ tax_code_content = <<>>
    /\ conversation_history = <<>>
    /\ last_query = NoQuery
    /\ agent_pc = "idle"

\* TaxAgent.__init__ on a document of at most MaxSections blocks
AgentInit ==
    /\ \E k \in 0..MaxSections :
          \E blocks \in [1..k -> Blocks] : tax_code_content = concat(blocks)
    /\ conversation_history = <<>>
    /\ last_query = NoQuery
    /\ agent_pc = "ready"
    /\ ConvIdle
    /\ FmtIdle
    /\ CallIdle

SpecAgent == AgentInit /\ [][Query]_vars

-----------------------------------------------------------------------------
(* The specifications *)

\* the converter on generic documents
TreeInit ==
    /\ IsTreeOver(MaxNodes, Tags, {"none", "text"}, BOOLEAN, BOOLEAN)
    /\ markdown_content = <<>>
    /\ conv_pc = "parsed"
    /\ FmtIdle
    /\ AgentIdle
    /\ CallIdle

SpecTree == TreeInit /\ [][ConvNext]_vars

\* the converter on small generic documents, also with blank text
SmallTreeInit ==
    /\ IsTreeOver(MaxSmallNodes, Tags, TextKinds, BOOLEAN, BOOLEAN)
    /\ markdown_content = <<>>
    /\ conv_pc = "parsed"
    /\ FmtIdle
    /\ AgentIdle
    /\ CallIdle

SpecSmallTree == SmallTreeInit /\ [][ConvNext]_vars

\* the converter on documents made of lists, items and contents
ListInit ==
    /\ IsTreeOver(MaxListNodes, ListTags, {"none", "text"}, {FALSE}, BOOLEAN)
    /\ markdown_content = <<>>
    /\ conv_pc = "parsed"
    /\ FmtIdle
    /\ AgentIdle
    /\ CallIdle

SpecList == ListInit /\ [][ConvNext]_vars

\* the cleanup pass on any assembled text
PostInit ==
    /\ doc = NoDoc
    /\ markdown_content \in Texts
    /\ conv_pc = "converted"
    /\ FmtIdle
    /\ AgentIdle
    /\ CallIdle

SpecPost == PostInit /\ [][CleanUp]_vars

\* format_markdown on an input of at most MaxChunks chunks, in a fresh
\* intermediate directory
FmtInit ==
    /\ total_chunks \in 0..MaxChunks
    /\ resume \in BOOLEAN
    /\ clean \in BOOLEAN
    /\ files = [j \in 0..(MaxChunks - 1) |-> NoFile]
    /\ formatted_chunks = <<>>
    /\ start_chunk = 0
    /\ chunk_i = 0
    /\ attempt = 0
    /\ output_file = <<>>
    /\ checkpoint = <<>>
    /\ runs = 1
    /\ fmt_pc = "start"
    /\ ConvIdle
    /\ AgentIdle
    /\ CallIdle

SpecFmt == FmtInit /\ [][FmtNext]_vars

SpecFmtDiskOk == FmtInit /\ [][FmtNextDiskOk]_vars

-----------------------------------------------------------------------------
(* Properties of the Tree Walker and of the Element Renderer *)

Converted == conv_pc = "converted"

\* the nodes of the subtree of e
Subtree(e) == {e} \cup {m \in Nodes : IsAncestor(e, m)}

\* the places of character c in s
Places(s, c) == {i \in 1..Len(s) : s[i] = c}

HasText(n) == NonBlank(doc.text[n])
HasTail(n) == NonBlank(doc.tail[n])

\* C1: no node is rendered twice: the direct text of each node appears at
\* most once in the output of process_xml_tree
NoNodeRenderedTwice ==
    Converted =>
        \A n \in Nodes : Count(markdown_content, TextTok[n]) <= 1

\* C2: no node is skipped unless it is parent-handled metadata (num, heading)
\* or a container-only wrapper (meta, main): the text of every other node
\* with non-blank direct text is present in the output of process_xml_tree
NoNodeSkipped ==
    Converted =>
        \A n \in Nodes :
            (HasText(n)
                 /\ get_tag_name(n) \notin {"num", "heading", "meta", "main"})
            => Count(markdown_content, TextTok[n]) >= 1

\* a node without text whose tag is outside the structural allow-list
SkippedNode(n) == ~HasText(n) /\ get_tag_name(n) \notin structural_tags

\* C3 as stated: a node with blank text and a tag outside the structural
\* allow-list is skipped entirely: it renders to the empty string and the
\* Tree Walker's output for it is the empty string
SkippedEntirely ==
    Converted =>
        \A n \in Nodes :
            SkippedNode(n) =>
                /\ element_to_markdown(n, Level(n)) = <<>>
                /\ process_xml_tree(n, Level(n)) = <<>>

\* C3 as amended: such a node renders to the empty string, and the Tree
\* Walker still recurses into it: its output for the node is the outputs
\* for the node's children, in order
SkippedNodeRendersOnlyChildren ==
    Converted =>
        \A n \in Nodes :
            SkippedNode(n) =>
                /\ element_to_markdown(n, Level(n)) = <<>>
                /\ process_xml_tree(n, Level(n))
                       = walk_children(Children(n), {}, Level(n))
                /\ (n = Root =>
                        markdown_content
                            = walk_children(Children(n), {}, Level(n)))

\* C3 witness: a skipped node whose child's text is in the output
SkippedNodeChildRendered ==
    /\ Converted
    /\ \E n \in Nodes :
          /\ SkippedNode(n)
          /\ \E c \in Nodes :
                /\ doc.parent[c] = n
                /\ Count(process_xml_tree(n, Level(n)), TextTok[c]) = 1
                /\ Count(markdown_content, TextTok[c]) = 1

\* C4: the universal suffix rule: the rendering of every node with non-blank
\* tail text ends with the trimmed tail text and one space, and the tail text
\* reaches the Tree Walker's output for the node's parent
UniversalSuffixRule ==
    Converted =>
        \A n \in Nodes \ {Root} :
            HasTail(n) =>
                /\ EndsWith(element_to_markdown(n, Level(n)),
                            strip(doc.tail[n]) \o <<" ">>)
                /\ Count(process_xml_tree(getparent(n), Level(getparent(n))),
                         TailTok[n]) >= 1

\* C5: tail-text placement: in the Tree Walker's output for the parent a
\* child's tail text appears at most once, after all the text rendered for
\* the child and its descendants and before the text of the later siblings
TailTextPlacement ==
    Converted =>
        \A c \in Nodes \ {Root} :
            LET o == process_xml_tree(getparent(c), Level(getparent(c)))
            IN  /\ Count(o, TailTok[c]) <= 1
                /\ \A i \in Places(o, TailTok[c]) :
                      /\ \A d \in Subtree(c) :
                            \A j \in Places(o, TextTok[d]) \cup
                                     (IF d = c THEN {}
                                      ELSE Places(o, TailTok[d])) : j < i
                      /\ \A s \in Nodes :
                            (getparent(s) = getparent(c) /\ s > c) =>
                                \A d \in Subtree(s) :
                                    \A j \in Places(o, TextTok[d]) : i < j

\* C6: the cleanup pass is idempotent: applying it to its own result
\* changes nothing
CleanUpIdempotent ==
    conv_pc = "cleaned" => clean_up(markdown_content) = markdown_content

-----------------------------------------------------------------------------
(* Properties of format_markdown *)

\* entry e is the entry of chunk j: its formatted text or its placeholder
EntryOf(e, j) == e = formatted_text(j) \/ e = placeholder(j)

\* exactly one entry per input chunk, in chunk order
OneEntryPerChunk(entries) ==
    /\ Len(entries) = total_chunks
    /\ \A j \in 0..(total_chunks - 1) : EntryOf(entries[j + 1], j)

\* C7: retry and placeholder alignment: every chunk gets at most 3 attempts
\* and exactly one entry, so the final output of a non-resumed run has
\* exactly one entry per input chunk, in chunk order
PlaceholderAlignment ==
    /\ attempt < max_retries
    /\ (~resume /\ fmt_pc = "loop") => Len(formatted_chunks) = chunk_i
    /\ (~resume /\ fmt_pc = "done") => OneEntryPerChunk(output_file)

\* C8: resume preserves ordering and completeness: a resumed run starts
\* after the highest existing intermediate file with the entries of the
\* chunks before it loaded, and its final output has exactly one entry per
\* input chunk, in chunk order
ResumeComplete ==
    /\ (resume /\ fmt_pc = "loop" /\ chunk_i = start_chunk) =>
           /\ start_chunk =
                  IF existing_chunks = {} THEN 0 ELSE Max(existing_chunks) + 1
           /\ Len(formatted_chunks) = start_chunk
           /\ \A j \in 0..(start_chunk - 1) :
                  EntryOf(formatted_chunks[j + 1], j)
    /\ (resume /\ fmt_pc = "done") => OneEntryPerChunk(output_file)

-----------------------------------------------------------------------------
(* Properties of TaxAgent *)

\* a query has been answered from at least one candidate section
Answered == last_query # NoQuery /\ last_query.sections # <<>>

\* C9: fallback citation: when the model call succeeds, at least one
\* candidate section exists and the answer has no "Source:" marker, the
\* response returned by query is the answer with a line "Source: " and the
\* citation of the top section appended, so it contains a citation marker
FallbackCitation ==
    (/\ Answered
     /\ last_query.outcome.kind = "ok"
     /\ ~Contains(source_marker, last_query.outcome.answer))
    => /\ last_query.returned
              = last_query.outcome.answer
                    \o <<"\n", "\n">> \o source_marker \o <<" ">>
                    \o last_query.sections[1].citation
       /\ Contains(source_marker, last_query.returned)

\* C10: external-service failure handling: when the model call raises or
\* its response lacks the message or content field, query raises nothing
\* and returns the fixed apology string, which is also the assistant's turn
\* in the conversation history; no query lets an exception out
ModelFailureApologised ==
    /\ ~last_query.raised
    /\ (Answered /\ last_query.outcome.kind # "ok") =>
           /\ last_query.returned = apology_message
           /\ conversation_history # <<>>
           /\ conversation_history[Len(conversation_history)]
                  = [role |-> "assistant", content |-> apology_message]

\* C10 witness: the model call of a query with candidate sections failed
ModelFailureAnswered ==
    /\ Answered
    /\ last_query.outcome.kind \in {"raises", "no_message", "no_content"}
    /\ last_query.returned = apology_message
    /\ Len(conversation_history) >= 2

-----------------------------------------------------------------------------
(* Direct calls of TaxAgent._find_relevant_sections *)

Returned(value) == [returned |-> TRUE, value |-> value]

\* a section whose content is longer than content_limit, with "tax" past it
long_section ==
    <<"#", " ", "G", "a", "i", "n", "\n", "\n", "g", "a", "i", "n", " ">>
        \o [i \in 1..(content_limit - 5) |-> "x"]
        \o <<" ", "t", "a", "x", "\n">>

\* the blocks of the documents searched for sections
SearchBlocks ==
    {<<"#", "#", " ", "§", "6", "3", " ", "I", "n", "c", "o", "m", "e",
       "\n", "\n", "i", "n", "c", "o", "m", "e", " ", "t", "a", "x", "\n">>,
     <<"#", "#", "#", " ", "§", "1", "(", "a", ")", " ", "T", "a", "x",
       "\n", "\n", "t", "a", "x", " ", "d", "u", "e", "\n">>,
     long_section}

\* the questions the documents are searched with
SearchQuestions ==
    {<<"i", "n", "c", "o", "m", "e", " ", "t", "a", "x">>,
     <<"G", "a", "i", "n", "s", "?">>,
     <<"a", "b", "o", "u", "t", " ", "n", "o", "t", "e", "s">>}

\* a TaxAgent whose document has at most MaxDocSections blocks, and a
\* question to search it with
SearchInit ==
    /\ \E k \in 0..MaxDocSections :
          \E blocks \in [1..k -> SearchBlocks] :
              tax_code_content = concat(blocks)
    /\ conversation_history = <<>>
    /\ last_query = NoQuery
    /\ agent_pc = "ready"
    /\ \E question \in SearchQuestions :
          call = [fn |-> "_find_relevant_sections", question |-> question]
    /\ call_result = NoResult
    /\ ConvIdle
    /\ FmtIdle

\* relevant_sections = self._find_relevant_sections(question)
FindRelevantSections ==
    /\ call.fn = "_find_relevant_sections"
    /\ call_result = NoResult
    /\ call_result' =
           Returned(_find_relevant_sections(tax_code_content, call.question))
    /\ UNCHANGED <<call, conv_vars, fmt_vars, agent_vars>>

SpecSearch == SearchInit /\ [][FindRelevantSections]_vars

Min(a, b) == IF a < b THEN a ELSE b

Searched == call.fn = "_find_relevant_sections" /\ call_result # NoResult

\* the sections of the document and the score of section j for the question
DocSections == find_sections(tax_code_content)

Score(j) ==
    relevance(_extract_key_terms(call.question),
              DocSections[j][1], DocSections[j][2])

\* C11: top-3 retrieval: _find_relevant_sections returns at most 3 records,
\* each of a section of the document with its score, at least 1, and with
\* the first 500 characters of the section's content; the records are in
\* non-increasing order of score and no section left out has a higher
\* score than one returned: for every score v the records scoring v or
\* more are as many as the sections scoring v or more, up to 3
TopThreeRetrieval ==
    Searched =>
        LET R == call_result.value
        IN  /\ Len(R) <= top_sections
            /\ \A i \in 1..Len(R) :
                  /\ R[i].relevance >= 1
                  /\ Len(R[i].content) <= content_limit
                  /\ \E j \in 1..Len(DocSections) :
                        /\ R[i].heading = DocSections[j][1]
                        /\ R[i].relevance = Score(j)
                        /\ R[i].content =
                               SubSeq(DocSections[j][2], 1,
                                      Min(Len(DocSections[j][2]),
                                          content_limit))
            /\ \A i \in 1..Len(R) : \A k \in i..Len(R) :
                  R[i].relevance >= R[k].relevance
            /\ \A v \in 1..Len(_extract_key_terms(call.question)) :
                  Cardinality({i \in 1..Len(R) : R[i].relevance >= v})
                      = Min(top_sections,
                            Cardinality({j \in 1..Len(DocSections) :
                                            Score(j) >= v}))

\* C11 witness: four sections score, the best is not the first of the
\* document, three records are returned and one of them is cut to 500
RetrievalCutToThree ==
    /\ Searched
    /\ Cardinality({j \in 1..Len(DocSections) : Score(j) >= 1}) > top_sections
    /\ Score(1) < Score(Len(DocSections))
    /\ Len(call_result.value) = top_sections
    /\ \E i \in 1..top_sections, j \in 1..Len(DocSections) :
          /\ call_result.value[i].heading = DocSections[j][1]
          /\ Len(call_result.value[i].content) = content_limit
          /\ Len(DocSections[j][2]) > content_limit

-----------------------------------------------------------------------------
(* Direct calls of TaxAgent._extract_citation *)

\* the parts of the headings: marks, whitespace, section number,
\* subsection, heading text
HeadingMarks ==
    {<<"#">>, <<"#", "#">>, <<"#", "#", "#">>, <<"#", "#", "#", "#">>}

HeadingSpaces == {<<" ">>, <<" ", " ">>, <<"\t">>}

\* <<>> for a heading without a section number
HeadingDigits == {<<>>, <<"6", "3">>, <<"1">>}

HeadingSubsections == {<<>>, <<"c">>, <<"a", "1">>}

HeadingTexts ==
    {<<" ", "S", "t", "a", "n", "d", "a", "r", "d", " ", "D", "e", "d", "u",
       "c", "t", "i", "o", "n">>,
     <<" ", "T", "a", "x", " ">>,
     <<" ", "F", "o", "r", "m", " ", "#", " ", "4">>,
     <<"G", "a", "i", "n">>,
     <<>>}

\* the heading made of the parts
heading_of(marks, space, digits, sub, text) ==
    marks \o space
        \o (IF digits # <<>>
            THEN <<"§">> \o digits
                     \o (IF sub # <<>> THEN <<"(">> \o sub \o <<")">>
                         ELSE <<>>)
            ELSE <<>>)
        \o text

\* a heading handed to _extract_citation
CitationInit ==
    /\ \E marks \in HeadingMarks, space \in HeadingSpaces,
          digits \in HeadingDigits, sub \in HeadingSubsections,
          text \in HeadingTexts :
          /\ digits = <<>> => sub = <<>>
          /\ call = [fn      |-> "_extract_citation",
                     heading |-> heading_of(marks, space, digits, sub, text),
                     digits  |-> digits,
                     sub     |-> sub,
                     text    |-> text]
    /\ call_result = NoResult
    /\ ConvIdle
    /\ FmtIdle
    /\ AgentIdle

\* citation = self._extract_citation(heading)
ExtractCitation ==
    /\ call.fn = "_extract_citation"
    /\ call_result = NoResult
    /\ call_result' = Returned(_extract_citation(call.heading))
    /\ UNCHANGED <<call, conv_vars, fmt_vars, agent_vars>>

SpecCitation == CitationInit /\ [][ExtractCitation]_vars

\* C12: citation extraction: for a heading of 1 to 4 marks, whitespace,
\* a section number with an optional subsection in parentheses and the
\* heading text, _extract_citation returns "26 USC §", the number, the
\* subsection in parentheses when there is one, and the trimmed heading
\* text in brackets; for a heading without a section number it returns
\* "US Tax Code [" the trimmed heading text "]"
CitationExtraction ==
    (call.fn = "_extract_citation" /\ call_result # NoResult) =>
        call_result.value =
            IF call.digits # <<>>
            THEN <<"2", "6", " ", "U", "S", "C", " ", "§">> \o call.digits
                     \o (IF call.sub # <<>>
                         THEN <<"(">> \o call.sub \o <<")">> ELSE <<>>)
                     \o <<" ", "[">> \o strip(call.text) \o <<"]">>
            ELSE <<"U", "S", " ", "T", "a", "x", " ", "C", "o", "d", "e",
                   " ", "[">> \o strip(call.text) \o <<"]">>

-----------------------------------------------------------------------------
(* The converter on documents of sections *)

\* a kind of node: its tag, its text (none, blank, text), its tail, its href
NodeKind(tag, text, tail, href) ==
    [tag |-> tag, text |-> text, tail |-> tail, href |-> href]

\* doc is a tree of at most maxNodes nodes, the root of a kind of rootKinds
\* and the other nodes of kinds of kinds
IsTreeOfKinds(maxNodes, rootKinds, kinds) ==
    \E k \in 1..maxNodes :
        \E p \in Shapes(k), r \in rootKinds, ks \in [2..k -> kinds] :
            LET kind(n) == IF n = 1 THEN r ELSE ks[n]
            IN  doc = [ns     |-> FALSE,
                       parent |-> p,
                       tag    |-> [n \in 1..k |-> kind(n).tag],
                       text   |-> [n \in 1..k |-> TextOf(n, kind(n).text)],
                       tail   |-> [n \in 1..k |->
                                     IF n = 1 THEN <<>>
                                     ELSE TailOf(n, kind(n).tail)],
                       href   |-> [n \in 1..k |-> kind(n).href]]

\* sections with and without tail text, num and heading children with no
\* text, blank text and text, and p children with and without tail text
SectionKinds ==
    {NodeKind("section", "none", tl, <<>>) : tl \in BOOLEAN}
        \cup {NodeKind(tg, tx, FALSE, <<>>) :
                 tg \in {"num", "heading"}, tx \in TextKinds}
        \cup {NodeKind("p", "text", tl, <<>>) : tl \in BOOLEAN}

SectionInit ==
    /\ IsTreeOfKinds(MaxSectionNodes,
                     {NodeKind("section", "none", FALSE, <<>>)},
                     SectionKinds)
    /\ markdown_content = <<>>
    /\ conv_pc = "parsed"
    /\ FmtIdle
    /\ AgentIdle
    /\ CallIdle

SpecSection == SectionInit /\ [][ConvNext]_vars

\* the children of node n with tag tag
ChildrenTagged(n, tag) ==
    SelectSeq(Children(n), LAMBDA c : get_tag_name(c) = tag)

\* the trimmed text of the first child of n with tag tag that has text
\* other than blanks, <<>> without one
NonBlankChildText(n, tag) ==
    LET cs == SelectSeq(ChildrenTagged(n, tag), HasText)
    IN  IF cs = <<>> THEN <<>> ELSE strip(doc.text[cs[1]])

\* the trimmed text of the first child of n with tag tag that has text,
\* blank or not, <<>> without one
FirstChildText(n, tag) ==
    LET cs == SelectSeq(ChildrenTagged(n, tag),
                        LAMBDA c : doc.text[c] # <<>>)
    IN  IF cs = <<>> THEN <<>> ELSE strip(doc.text[cs[1]])

\* the header line of a section with num N and heading H
HeaderLine(N, H) ==
    IF N = <<>> /\ H = <<>> THEN <<>>
    ELSE <<"\n", "#", "#", " ">>
             \o (IF N # <<>> THEN N \o <<" ">> ELSE <<>>) \o H
             \o <<"\n", "\n">>

\* the rendering of the sections, child_text giving the text of a section's
\* num and heading: a section with num and heading, no other children and
\* no tail text renders to exactly the header line "\n## N H\n\n" at every
\* nesting level; the walked text of the other children follows the header
\* in order; the header is omitted exactly when neither has text
SectionRenderingWith(child_text(_, _)) ==
    Converted =>
        \A n \in Nodes :
            get_tag_name(n) = "section" =>
                LET N == child_text(n, "num")
                    H == child_text(n, "heading")
                IN  /\ \A level \in {0, Level(n), MaxSectionNodes} :
                          element_to_markdown(n, level)
                              = HeaderLine(N, H)
                                    \o walk_children(Children(n),
                                                     {"num", "heading"},
                                                     level)
                                    \o tail_text(n)
                    /\ (N # <<>> /\ H # <<>> /\ Len(Children(n)) = 2
                            /\ ~HasTail(n))
                       => process_xml_tree(n, Level(n))
                              = <<"\n", "#", "#", " ">> \o N \o <<" ">> \o H
                                    \o <<"\n", "\n">>
                    /\ (n = Root =>
                            markdown_content
                                = HeaderLine(N, H)
                                      \o walk_children(Children(n),
                                                       {"num", "heading"},
                                                       0))

\* C13 as stated: section rendering, the num and the heading of a section
\* being the text of its num child and of its heading child that have
\* text; the header line is omitted exactly when neither has text
SectionRenderingAsStated == SectionRenderingWith(NonBlankChildText)

\* C13 as amended: section rendering, the num and the heading of a section
\* being the trimmed text of its first num child and of its first heading
\* child whose text is not empty: a blank one hides the later ones, and the
\* header line is omitted exactly when both are empty after trimming
SectionRendering == SectionRenderingWith(FirstChildText)

\* C13 witness: a nested section with num and heading, no other children
\* and no tail text, whose header line is in the output
NestedSectionRendered ==
    /\ Converted
    /\ \E n \in Nodes :
          /\ get_tag_name(n) = "section"
          /\ Level(n) >= 1
          /\ FirstChildText(n, "num") # <<>>
          /\ FirstChildText(n, "heading") # <<>>
          /\ Len(Children(n)) = 2
          /\ ~HasTail(n)
          /\ markdown_content
                 = <<"\n", "#", "#", " ">> \o FirstChildText(n, "num")
                       \o <<" ">> \o FirstChildText(n, "heading")
                       \o <<"\n", "\n">>

-----------------------------------------------------------------------------
(* The converter on documents of paragraphs *)

\* the href attribute of the references
link_target == <<"https://x">>

\* paragraphs, num and content children with blank text and with text,
\* ref children with text, with and without href and tail text
ParagraphKinds ==
    {NodeKind("paragraph", "none", FALSE, <<>>)}
        \cup {NodeKind(tg, tx, FALSE, <<>>) :
                 tg \in {"num", "content"}, tx \in {"blank", "text"}}
        \cup {NodeKind("ref", "text", tl, link_target) : tl \in BOOLEAN}
        \cup {NodeKind("ref", "text", FALSE, <<>>)}

ParagraphInit ==
    /\ IsTreeOfKinds(MaxParagraphNodes,
                     {NodeKind("section", "none", FALSE, <<>>),
                      NodeKind("paragraph", "none", FALSE, <<>>)},
                     ParagraphKinds)
    /\ markdown_content = <<>>
    /\ conv_pc = "parsed"
    /\ FmtIdle
    /\ AgentIdle
    /\ CallIdle

SpecParagraph == ParagraphInit /\ [][ConvNext]_vars

\* the link of reference r
LinkOf(r) ==
    <<"[">> \o strip(doc.text[r]) \o <<"]", "(">> \o doc.href[r] \o <<")">>

\* a child of a paragraph that is a reference with href and text
LinkChild(r) ==
    /\ get_tag_name(r) = "ref"
    /\ doc.href[r] # <<>>
    /\ HasText(r)
    /\ Children(r) = <<>>

\* a paragraph whose children are num, content and references with href
LinkParagraph(n) ==
    /\ get_tag_name(n) = "paragraph"
    /\ \A k \in 1..Len(Children(n)) :
          \/ get_tag_name(Children(n)[k]) \in {"num", "content"}
          \/ LinkChild(Children(n)[k])

\* a node under sections and paragraphs only
InSections(n) ==
    \A a \in Nodes :
        IsAncestor(a, n) => get_tag_name(a) \in {"section", "paragraph"}

\* the rendering of the paragraphs, child_text giving the text of a
\* paragraph's num and content: "**num** " when the num has text, the
\* content and one space when present, the trimmed walked text of the other
\* children, one newline when anything was produced; a reference child with
\* href and text is a link on the paragraph's own line, with no newline in
\* it or before it, also in the converted document when the paragraph is
\* under sections and paragraphs only
ParagraphRenderingWith(child_text(_, _)) ==
    conv_pc \in {"converted", "cleaned"} =>
        \A n \in Nodes :
            get_tag_name(n) = "paragraph" =>
                LET N    == child_text(n, "num")
                    C    == child_text(n, "content")
                    line == (IF N # <<>>
                             THEN <<"*", "*">> \o N \o <<"*", "*", " ">>
                             ELSE <<>>)
                            \o (IF C # <<>> THEN C \o <<" ">> ELSE <<>>)
                            \o strip(walk_children(Children(n),
                                                   {"num", "content"},
                                                   Level(n)))
                    block == IF NonBlank(line) THEN line \o <<"\n">>
                             ELSE line
                IN  /\ element_to_markdown(n, Level(n))
                           = block \o tail_text(n)
                    /\ (N # <<>> /\ C # <<>> /\ Len(Children(n)) = 2)
                       => process_xml_tree(n, Level(n))
                              = <<"*", "*">> \o N \o <<"*", "*", " ">> \o C
                                    \o <<" ", "\n">>
                    /\ LinkParagraph(n) =>
                          /\ Count(block, "\n") <= 1
                          /\ \A r \in Nodes :
                                (getparent(r) = n /\ LinkChild(r)) =>
                                    /\ Contains(LinkOf(r), block)
                                    /\ InSections(n) =>
                                           Contains(LinkOf(r),
                                                    markdown_content)

-----------------------------------------------------------------------------
(* Direct calls of table_to_markdown *)

\* a row of n cells of one tag
Rows == {[cell |-> c, n |-> n] : c \in {"th", "td"}, n \in 0..MaxCells}

RowSeqs == UNION {[1..k -> Rows] : k \in 0..MaxRows}

\* a header group of one row, a body group, a body group of one row
HeaderGroups == {[tag |-> "thead", rows |-> <<r>>] : r \in Rows}

BodyGroups == {[tag |-> "tbody", rows |-> rs] : rs \in RowSeqs}

SmallBodyGroups == {[tag |-> "tbody", rows |-> <<r>>] : r \in Rows}

\* tables without groups, with one group, with a header and a body in
\* either order, and with a second body
TableLayouts ==
    {<<>>}
        \cup {<<g>> : g \in HeaderGroups \cup BodyGroups}
        \cup {<<h, b>> : h \in HeaderGroups, b \in BodyGroups}
        \cup {<<b, h>> : h \in HeaderGroups, b \in BodyGroups}
        \cup {<<h, b, c>> :
                 h \in HeaderGroups, b \in BodyGroups, c \in SmallBodyGroups}

\* the nodes of a row in document order, each with its depth
RowEntries(row) ==
    <<[tag |-> "tr", depth |-> 2]>>
        \o [i \in 1..row.n |-> [tag |-> row.cell, depth |-> 3]]

RECURSIVE RowsEntries(_)
RowsEntries(rows) ==
    IF rows = <<>> THEN <<>>
    ELSE RowEntries(Head(rows)) \o RowsEntries(Tail(rows))

RECURSIVE GroupsEntries(_)
GroupsEntries(groups) ==
    IF groups = <<>> THEN <<>>
    ELSE <<[tag |-> Head(groups).tag, depth |-> 1]>>
             \o RowsEntries(Head(groups).rows)
             \o GroupsEntries(Tail(groups))

\* the text of cell n: n letters between blanks
CellText(n) == <<" ">> \o [i \in 1..n |-> "x"] \o <<"\n">>

\* the tree of a table of layout layout
TableDoc(layout) ==
    LET es == <<[tag |-> "table", depth |-> 0]>> \o GroupsEntries(layout)
        up(n) == IF n = 1 THEN 0
                 ELSE CHOOSE m \in 1..(n - 1) :
                          /\ es[m].depth = es[n].depth - 1
                          /\ \A j \in (m + 1)..(n - 1) :
                                es[j].depth >= es[n].depth
    IN  [ns     |-> FALSE,
         parent |-> [n \in 1..Len(es) |-> up(n)],
         tag    |-> [n \in 1..Len(es) |-> es[n].tag],
         text   |-> [n \in 1..Len(es) |->
                        IF es[n].tag \in {"th", "td"} THEN CellText(n)
                        ELSE <<>>],
         tail   |-> [n \in 1..Len(es) |-> <<>>],
         href   |-> [n \in 1..Len(es) |-> <<>>]]

TableInit ==
    /\ \E layout \in TableLayouts : doc = TableDoc(layout)
    /\ markdown_content = <<>>
    /\ conv_pc = "parsed"
    /\ call = [fn |-> "table_to_markdown"]
    /\ call_result = NoResult
    /\ FmtIdle
    /\ AgentIdle

TableToMarkdown ==
    /\ call.fn = "table_to_markdown"
    /\ call_result = NoResult
    /\ call_result' = Returned(table_to_markdown(Root))
    /\ UNCHANGED <<call, conv_vars, fmt_vars, agent_vars>>

SpecTable == TableInit /\ [][TableToMarkdown]_vars

\* the nodes with tag tag below node n, in document order
Below(n, tag) ==
    SelectSeq([i \in Nodes |-> i],
              LAMBDA m : get_tag_name(m) = tag /\ IsAncestor(n, m))

\* "|" and then every cell between blanks with "|" after it
RECURSIVE PipeRow(_)
PipeRow(cells) ==
    IF cells = <<>> THEN <<"|">>
    ELSE PipeRow(SubSeq(cells, 1, Len(cells) - 1))
             \o <<" ">> \o cells[Len(cells)] \o <<" ", "|">>

\* the header cells found: the th nodes of the first header group
HeaderCells ==
    IF Below(Root, "thead") = <<>> THEN <<>>
    ELSE Below(Below(Root, "thead")[1], "th")

\* the body rows: the tr nodes of the first body group
BodyRows ==
    IF Below(Root, "tbody") = <<>> THEN <<>>
    ELSE Below(Below(Root, "tbody")[1], "tr")

\* the lines of the table: the rows and the separator between newlines
TableLines ==
    IF call_result.value = <<>> THEN <<>>
    ELSE split(call_result.value, "\n")

\* C15: table conversion: the table is a header row and a separator row of
\* as many "---" cells exactly when a header cell was found, then one row
\* for every body row with a cell, in document order, each row its cells'
\* texts between pipes; header cells A, B and one body row 1, 2 give the
\* three lines "| A | B |", "| --- | --- |", "| 1 | 2 |"; without a header
\* group or without a body group the call returns the other part
TableConversion ==
    call_result.returned =>
        LET rows    == SelectSeq(BodyRows,
                                 LAMBDA r : Below(r, "td") # <<>>)
            headers == IF HeaderCells = <<>> THEN 0 ELSE 2
            text(c) == strip(doc.text[c])
        IN  /\ Len(TableLines) = headers + Len(rows)
            /\ HeaderCells # <<>> =>
                  /\ TableLines[1]
                         = PipeRow([i \in 1..Len(HeaderCells) |->
                                       text(HeaderCells[i])])
                  /\ TableLines[2]
                         = PipeRow([i \in 1..Len(HeaderCells) |->
                                       <<"-", "-", "-">>])
                  /\ Count(TableLines[2], "|") = Count(TableLines[1], "|")
            /\ \A k \in 1..Len(rows) :
                  TableLines[headers + k]
                      = PipeRow([i \in 1..Len(Below(rows[k], "td")) |->
                                    text(Below(rows[k], "td")[i])])
            /\ (/\ doc.tag = <<"table", "thead", "tr", "th", "th",
                               "tbody", "tr", "td", "td">>)
               => call_result.value
                      = <<"|", " ", "x", "x", "x", "x", " ", "|", " ",
                          "x", "x", "x", "x", "x", " ", "|", "\n",
                          "|", " ", "-", "-", "-", " ", "|", " ",
                          "-", "-", "-", " ", "|", "\n",
                          "|", " ", "x", "x", "x", "x", "x", "x", "x", "x",
                          " ", "|", " ", "x", "x", "x", "x", "x", "x", "x",
                          "x", "x", " ", "|">>

\* C15 witness: a table with two header cells, a row without a cell and a
\* row of two cells converted to three lines
TableWithSkippedRowConverted ==
    /\ call_result.returned
    /\ Len(HeaderCells) = 2
    /\ Len(BodyRows) = 2
    /\ Below(BodyRows[1], "td") = <<>>
    /\ Len(Below(BodyRows[2], "td")) = 2
    /\ Len(TableLines) = 3

-----------------------------------------------------------------------------
(* Direct calls of TaxAgent._extract_key_terms and of the scoring loop *)

\* the questions the key terms are extracted from: 'What of Income?'; 'Gains?'; 'about notes'; 'Which Notes\tnotes not?'; 'About their taxes'; '  '
TermQuestions ==
    {<<"W", "h", "a", "t", " ", "o", "f", " ", "I", "n", "c", "o", "m", "e", "?">>,
     <<"G", "a", "i", "n", "s", "?">>,
     <<"a", "b", "o", "u", "t", " ", "n", "o", "t", "e", "s">>,
     <<"W", "h", "i", "c", "h", " ", "N", "o", "t", "e", "s", "\t", "n", "o", "t", "e", "s", " ", "n", "o", "t", "?">>,
     <<"A", "b", "o", "u", "t", " ", "t", "h", "e", "i", "r", " ", "t", "a", "x", "e", "s">>,
     <<" ", " ">>}

\* the blocks of the documents scored: two sections of SearchBlocks and
\* a section of notes
TermBlocks ==
    {<<"#", "#", " ", "§", "6", "3", " ", "I", "n", "c", "o", "m", "e", "\n", "\n", "i", "n", "c", "o", "m", "e", " ", "t", "a", "x", "\n">>,
     long_section,
     <<"#", " ", "N", "o", "t", "e", "s", "\n", "\n", "s", "e", "e", " ", "N", "O", "T", "E", "S", "\n">>}

TermsInit ==
    /\ \E k \in 0..MaxSections :
          \E blocks \in [1..k -> TermBlocks] :
              tax_code_content = concat(blocks)
    /\ conversation_history = <<>>
    /\ last_query = NoQuery
    /\ agent_pc = "ready"
    /\ \E question \in TermQuestions :
       \E fn \in {"_extract_key_terms", "_find_relevant_sections"} :
          call = [fn |-> fn, question |-> question]
    /\ call_result = NoResult
    /\ ConvIdle
    /\ FmtIdle

\* key_terms = self._extract_key_terms(question)
ExtractKeyTerms ==
    /\ call.fn = "_extract_key_terms"
    /\ call_result = NoResult
    /\ call_result' = Returned(_extract_key_terms(call.question))
    /\ UNCHANGED <<call, conv_vars, fmt_vars, agent_vars>>

TermsNext ==
    \/ ExtractKeyTerms
    \/ FindRelevantSections

SpecTerms == TermsInit /\ [][TermsNext]_vars

\* the terms of the vocabulary that occur in the question, the case ignored
VocabularyHits ==
    {i \in 1..Len(tax_terms) :
        Contains(lower(tax_terms[i]), lower(call.question))}

\* a word of the question from place i to place j
IsWord(i, j) ==
    LET s == call.question
    IN  /\ i <= j
        /\ \A k \in i..j : s[k] \notin Whitespace
        /\ i = 1 \/ s[i - 1] \in Whitespace
        /\ j = Len(s) \/ s[j + 1] \in Whitespace

\* the places where a word longer than 4 that is no stopword starts
LongWordStarts ==
    {i \in 1..Len(call.question) :
        \E j \in (i + min_word_len)..Len(call.question) :
            /\ IsWord(i, j)
            /\ lower(SubSeq(call.question, i, j)) \notin stopwords}

\* the word that starts at place i
WordAt(i) ==
    SubSeq(call.question, i,
           CHOOSE j \in i..Len(call.question) : IsWord(i, j))

\* C16: key terms and scoring: _extract_key_terms returns exactly the terms
\* of the vocabulary that occur in the question, the case ignored, when one
\* does, and otherwise the words of the question longer than 4 characters
\* whose lowercase form is no stopword; the score of a returned section is
\* the number of key terms that occur, the case ignored, in its heading or
\* in its content
KeyTermsAndScoring ==
    /\ (call.fn = "_extract_key_terms" /\ call_result.returned) =>
          LET terms == call_result.value
          IN  IF VocabularyHits # {}
              THEN /\ Len(terms) = Cardinality(VocabularyHits)
                   /\ {terms[k] : k \in 1..Len(terms)}
                          = {tax_terms[i] : i \in VocabularyHits}
              ELSE /\ Len(terms) = Cardinality(LongWordStarts)
                   /\ \A i \in LongWordStarts :
                         terms[1 + Cardinality({h \in LongWordStarts :
                                                   h < i})]
                             = WordAt(i)
    /\ Searched =>
          LET terms == _extract_key_terms(call.question)
              R     == call_result.value
              occurs(term, text) == Contains(lower(term), lower(text))
          IN  \A i \in 1..Len(R) :
                  \E j \in 1..Len(DocSections) :
                      /\ R[i].heading = DocSections[j][1]
                      /\ R[i].content
                             = SubSeq(DocSections[j][2], 1,
                                      Min(Len(DocSections[j][2]),
                                          content_limit))
                      /\ R[i].relevance
                             = Cardinality(
                                   {k \in 1..Len(terms) :
                                       \/ occurs(terms[k], DocSections[j][1])
                                       \/ occurs(terms[k],
                                                 DocSections[j][2])})

\* C16 witness: the words of a question without a term of the vocabulary,
\* one of them a stopword and one of them too short, score 2 for the notes
KeyWordsScored ==
    /\ Searched
    /\ VocabularyHits = {}
    /\ Cardinality(LongWordStarts) = 2
    /\ \E i \in 1..Len(call.question) :
          \E j \in (i + min_word_len)..Len(call.question) :
              IsWord(i, j) /\ i \notin LongWordStarts
    /\ call_result.value # <<>>
    /\ call_result.value[1].relevance = 2

-----------------------------------------------------------------------------
(* The converter on documents of notes *)

\* notes with no text, with text on one line and on two lines, with and
\* without tail text, headings and p children with text on one and on two
\* lines, and paragraphs
NoteKinds ==
    {NodeKind(tg, tx, FALSE, <<>>) :
        tg \in {"note", "notes"}, tx \in {"none", "text", "lines"}}
        \cup {NodeKind("note", "text", TRUE, <<>>)}
        \cup {NodeKind("heading", tx, FALSE, <<>>) : tx \in {"text", "lines"}}
        \cup {NodeKind("p", "text", tl, <<>>) : tl \in BOOLEAN}
        \cup {NodeKind("p", "lines", FALSE, <<>>),
              NodeKind("paragraph", "none", FALSE, <<>>)}

NoteInit ==
    /\ IsTreeOfKinds(MaxNoteNodes,
                     {NodeKind("note", tx, FALSE, <<>>) :
                         tx \in {"none", "text", "lines"}},
                     NoteKinds)
    /\ markdown_content = <<>>
    /\ conv_pc = "parsed"
    /\ FmtIdle
    /\ AgentIdle
    /\ CallIdle

SpecNote == NoteInit /\ [][ConvNext]_vars

\* every line of lines after "> "
RECURSIVE Quoted(_)
Quoted(lines) ==
    IF lines = <<>> THEN <<>>
    ELSE <<">", " ">> \o Head(lines) \o <<"\n">> \o Quoted(Tail(lines))

\* the lines of the children of a note other than its headings: the lines
\* of each walked child that are not blank, each after "> "
RECURSIVE ChildLines(_, _)
ChildLines(cs, level) ==
    IF cs = <<>> THEN <<>>
    ELSE (IF get_tag_name(Head(cs)) = "heading" THEN <<>>
          ELSE Quoted(SelectSeq(split(process_xml_tree(Head(cs), level + 1),
                                      "\n"),
                                NonBlank)))
             \o ChildLines(Tail(cs), level)

\* the block of note n: its rendering before its own tail text
NoteBlock(n) ==
    SubSeq(element_to_markdown(n, Level(n)), 1,
           Len(element_to_markdown(n, Level(n))) - Len(tail_text(n)))

\* the lines of a block that ends its last line with a newline
LinesOf(block) ==
    IF block = <<>> THEN <<>>
    ELSE split(SubSeq(block, 1, Len(block) - 1), "\n")

\* C17: note blockquote: the block of every note or notes node is its
\* heading line "> **heading**", then the lines of its own text, then the
\* lines of its walked children that are not blank, and every line of the
\* block starts with "> ", also when a child is a note or renders to
\* several lines
NoteBlockquote ==
    conv_pc \in {"converted", "cleaned"} =>
        \A n \in Nodes :
            get_tag_name(n) \in {"note", "notes"} =>
                LET H == NonBlankChildText(n, "heading")
                IN  /\ NoteBlock(n)
                           = (IF H # <<>>
                              THEN <<">", " ", "*", "*">> \o H
                                       \o <<"*", "*", "\n">>
                              ELSE <<>>)
                             \o (IF HasText(n)
                                 THEN Quoted(split(strip(doc.text[n]), "\n"))
                                 ELSE <<>>)
                             \o ChildLines(Children(n), Level(n))
                    /\ NoteBlock(n) # <<>> =>
                          NoteBlock(n)[Len(NoteBlock(n))] = "\n"
                    /\ \A k \in 1..Len(LinesOf(NoteBlock(n))) :
                          /\ Len(LinesOf(NoteBlock(n))[k]) >= 2
                          /\ SubSeq(LinesOf(NoteBlock(n))[k], 1, 2)
                                 = <<">", " ">>

-----------------------------------------------------------------------------
(* Direct calls of split_by_paragraphs *)

\* text.split("\n\n"): the pieces between the pairs of newlines, the pairs
\* taken from the left
RECURSIVE split_paragraphs(_)
split_paragraphs(text) ==
    LET at(i) == text[i] = "\n" /\ text[i + 1] = "\n"
    IN  IF \A i \in 1..(Len(text) - 1) : ~at(i)
        THEN <<text>>
        ELSE LET i == CHOOSE k \in 1..(Len(text) - 1) :
                          at(k) /\ \A j \in 1..(k - 1) : ~at(j)
             IN  <<SubSeq(text, 1, i - 1)>>
                     \o split_paragraphs(SubSeq(text, i + 2, Len(text)))

\* the loop of split_by_paragraphs over the paragraphs left
RECURSIVE split_loop(_, _, _, _)
split_loop(paragraphs, chunks, current_chunk, max_chunk_size) ==
    IF paragraphs = <<>>
    THEN IF current_chunk # <<>> THEN Append(chunks, current_chunk)
         ELSE chunks
    ELSE LET para == Head(paragraphs)
         IN  IF Len(current_chunk) + Len(para) + 2 > max_chunk_size
                    /\ current_chunk # <<>>
             THEN split_loop(Tail(paragraphs), Append(chunks, current_chunk),
                             para, max_chunk_size)
             ELSE split_loop(Tail(paragraphs), chunks,
                             (IF current_chunk # <<>>
                              THEN current_chunk \o <<"\n", "\n">>
                              ELSE current_chunk) \o para,
                             max_chunk_size)

split_by_paragraphs(text, max_chunk_size) ==
    split_loop(split_paragraphs(text), <<>>, <<>>, max_chunk_size)

\* the texts split: letters and newlines
SplitTexts == UNION {[1..k -> {"a", "\n"}] : k \in 0..MaxSplitLen}

SplitInit ==
    /\ \E text \in SplitTexts, max_chunk_size \in 1..MaxChunkSize :
          call = [fn             |-> "split_by_paragraphs",
                  text           |-> text,
                  max_chunk_size |-> max_chunk_size]
    /\ call_result = NoResult
    /\ ConvIdle
    /\ FmtIdle
    /\ AgentIdle

\* chunks = split_by_paragraphs(content, max_chunk_size)
SplitByParagraphs ==
    /\ call.fn = "split_by_paragraphs"
    /\ call_result = NoResult
    /\ call_result' =
           Returned(split_by_paragraphs(call.text, call.max_chunk_size))
    /\ UNCHANGED <<call, conv_vars, fmt_vars, agent_vars>>

SpecSplit == SplitInit /\ [][SplitByParagraphs]_vars

\* C18: chunk size bound: every chunk returned by split_by_paragraphs is at
\* most max_chunk_size long, is not empty, and is a run of paragraphs of
\* the text with their separators
ChunkSizeBound ==
    (call.fn = "split_by_paragraphs" /\ call_result.returned) =>
        LET chunks     == call_result.value
            paragraphs == split_paragraphs(call.text)
        IN  \A k \in 1..Len(chunks) :
                /\ Len(chunks[k]) <= call.max_chunk_size
                /\ chunks[k] # <<>>
                /\ \E i \in 1..Len(paragraphs) :
                   \E j \in i..Len(paragraphs) :
                       chunks[k] = join(SubSeq(paragraphs, i, j),
                                        <<"\n", "\n">>)

\* C19: chunking loses nothing: the chunks returned by split_by_paragraphs
\* joined with "\n\n" are the text
ChunkingLosesNothing ==
    (call.fn = "split_by_paragraphs" /\ call_result.returned) =>
        join(call_result.value, <<"\n", "\n">>) = call.text

-----------------------------------------------------------------------------
(* The conversation history of TaxAgent *)

\* the entries of the history are the turns of the user and of the
\* assistant, one after the other
HistoryAlternates ==
    /\ Len(conversation_history) % 2 = 0
    /\ \A k \in 1..Len(conversation_history) :
          conversation_history[k].role
              = IF k % 2 = 1 THEN "user" ELSE "assistant"

\* a call of query adds its question and then the string it returned to
\* the history, raises nothing and leaves the document as it was
QueryAddsQuestionAndAnswer ==
    /\ ~last_query'.raised
    /\ conversation_history'
           = conversation_history
                 \o <<[role |-> "user", content |-> last_query'.question],
                      [role    |-> "assistant",
                       content |-> last_query'.returned]>>
    /\ tax_code_content' = tax_code_content

\* C20: conversation history invariant: every call of query adds two
\* entries to conversation_history, its question as the user's and the
\* string it returned as the assistant's, so that after n calls the history
\* has 2n entries that alternate user, assistant in call order; also when
\* the model call fails and when no section is relevant; query never
\* modifies tax_code_content
ConversationHistoryInvariant ==
    /\ []HistoryAlternates
    /\ [][QueryAddsQuestionAndAnswer]_vars

\* C20 witness: after a query without a relevant section and a query whose
\* model call failed the history has the two questions and the two fixed
\* messages
TwoFailedQueriesRecorded ==
    /\ Len(conversation_history) = 4
    /\ conversation_history[2].content = not_found_message
    /\ conversation_history[4].content = apology_message
    /\ conversation_history[3].content = last_query.question
    /\ last_query.outcome.kind = "raises"
    /\ tax_code_content # <<>>

====
